---- MODULE Spec2Model ----
(***************************************************************************)
(* A model of the control flow of embedded-hal's blocking SPI layer        *)
(* (src/src/blocking/spi.rs):                                              *)
(*   - spi_with_cs::SpiWithCs, the chip-select managed wrapper,            *)
(*   - transactional::exec, the transactional composition,                 *)
(*   - transfer / write / write_iter, the blocking operations derived from *)
(*     the non-blocking FullDuplex word primitive with nb::block!.         *)
(* The collaborators the code is generic over (the output pin, the wrapped *)
(* bus, the non-blocking primitive) answer nondeterministically.           *)
(* The count down timer of src/embedded-hal-timer/src/lib.rs (CountDown,   *)
(* Periodic, Cancel) has no implementation in the repository: it is        *)
(* modelled as a timer that keeps the contracts its traits document.       *)
(***************************************************************************)
EXTENDS Integers, Sequences, FiniteSets, TLC

VARIABLES
    cs,         \* SpiWithCs.cs: the level of the chip-select pin
    csOp,       \* the SpiWithCs method called last ("none" before the first)
    csData,     \* the data argument of that call
    csEvents,   \* the calls it made on the pin and the bus, in order
    csRet,      \* what it returned
    csCalls,    \* how many SpiWithCs calls have returned
    exOps,      \* exec: the operations slice as the caller passed it
    exAfter,    \* exec: the operations slice when exec returned
    exCalls,    \* exec: the calls it made on the bus, with their results
    exRet,      \* exec: what it returned
    bOp,        \* blocking operation running: "transfer", "write", "write_iter"
    bOrig,      \* its words argument as the caller passed it
    bBuf,       \* the words slice now (transfer overwrites it in place)
    bRest,      \* the `for` iterator: the items it has not yielded yet
    bPc,        \* where the operation stands: "idle", "write", "read", "done"
    bTrace,     \* the calls made on the non-blocking primitive, with answers
    bRet,       \* what the operation returned
    tPeriodic,  \* timer: whether the timer implements Periodic
    tState,     \* timer: "idle" (never started), "running", "expired", "canceled"
    tCount,     \* timer: the count of the last start
    tLeft,      \* timer: the time left of the count down
    tFired,     \* timer: a count down finished and wait has not said so yet
    tLog        \* timer: the calls made on the timer, with their results

csVars == <<cs, csOp, csData, csEvents, csRet, csCalls>>

execVars == <<exOps, exAfter, exCalls, exRet>>

bridgeVars == <<bOp, bOrig, bBuf, bRest, bPc, bTrace, bRet>>

timerVars == <<tPeriodic, tState, tCount, tLeft, tFired, tLog>>

vars == <<cs, csOp, csData, csEvents, csRet, csCalls, exOps, exAfter, exCalls, exRet,
          bOp, bOrig, bBuf, bRest, bPc, bTrace, bRet,
          tPeriodic, tState, tCount, tLeft, tFired, tLog>>

----------------------------------------------------------------------------
(* Bounds *)

\* SpiWithCs calls in one behaviour
MaxCalls == 2

\* operations in one transaction
MaxOps == 3

\* words in the buffer of one blocking operation
MaxLen == 2

\* would-block answers of the primitive during one blocking operation
MaxWouldBlock == 2

\* calls on the timer in one behaviour
MaxTimerCalls == 4

\* the longest count a timer is started with
MaxCount == 2

----------------------------------------------------------------------------
(* Values *)

\* W = u8, cut down to two word values
Words == {0, 1}

\* the buffers a caller passes
Bufs == {<<>>, <<0>>, <<1, 0>>}

\* the error values of the wrapped bus (SpiError) and of the pin (PinError)
SpiErrors == {"SpiE1", "SpiE2"}

PinErrors == {"PinE1", "PinE2"}

Levels == {"low", "high"}

\* Result::Ok(val); val is a sequence of words, <<>> for the unit value
Ok(val) == [tag |-> "Ok", e |-> "none", val |-> val]

\* Result::Err(e) of a collaborator
Err(e) == [tag |-> "Err", e |-> e, val |-> <<>>]

\* SpiWithCsError::Spi(e)
SpiWithCsError_Spi(e) == [tag |-> "Spi", e |-> e, val |-> <<>>]

\* SpiWithCsError::Pin(e)
SpiWithCsError_Pin(e) == [tag |-> "Pin", e |-> e, val |-> <<>>]

NoRet == [tag |-> "none", e |-> "none", val |-> <<>>]

----------------------------------------------------------------------------
(* The collaborators of SpiWithCs *)

\* OutputPin::try_set_low / try_set_high: what the pin may answer when asked
\* to drive `target`. On success the pin is at `target`; on failure it
\* reports an error and is left at either level.
PinOutcomes(target) ==
    {[ok |-> TRUE, e |-> "none", level |-> target]}
    \cup {[ok |-> FALSE, e |-> e, level |-> l] : e \in PinErrors, l \in Levels}

\* Spi::try_transfer(data): received words in place of data, or an error
TransferOutcomes(data) ==
    {Ok(rx) : rx \in [1..Len(data) -> Words]} \cup {Err(e) : e \in SpiErrors}

\* Spi::try_write(data), Spi::try_write_iter(words): unit, or an error
WriteOutcomes == {Ok(<<>>)} \cup {Err(e) : e \in SpiErrors}

\* .map_err(SpiWithCsError::Spi)
map_err_Spi(r) == IF r.tag = "Err" THEN SpiWithCsError_Spi(r.e) ELSE r

\* one call on a collaborator, as SpiWithCs made it and as it was answered
PinEvent(call, r) == [call |-> call, ok |-> r.ok, e |-> r.e, data |-> <<>>, val |-> <<>>]

BusEvent(call, data, r) ==
    [call |-> call, ok |-> r.tag = "Ok", e |-> r.e, data |-> data, val |-> r.val]

----------------------------------------------------------------------------
(* SpiWithCs: each method as a function of the answers of its collaborators *)

\* try_transfer as it would be if a captured bus error were returned in
\* preference to the failure of the deassert
try_transfer_bus_error_first(data, lowRes, busRes, highRes) ==
    IF ~lowRes.ok
    THEN [events |-> <<PinEvent("try_set_low", lowRes)>>,
          ret |-> SpiWithCsError_Pin(lowRes.e),
          cs |-> lowRes.level]
    ELSE LET spi_result == map_err_Spi(busRes)
             events == <<PinEvent("try_set_low", lowRes),
                         BusEvent("try_transfer", data, busRes),
                         PinEvent("try_set_high", highRes)>>
         IN  IF spi_result.tag = "Spi" \/ highRes.ok
             THEN [events |-> events, ret |-> spi_result, cs |-> highRes.level]
             ELSE [events |-> events,
                   ret |-> SpiWithCsError_Pin(highRes.e),
                   cs |-> highRes.level]

\* spi_with_cs: impl Transfer<u8> for SpiWithCs, try_transfer
try_transfer(data, lowRes, busRes, highRes) ==
    IF ~lowRes.ok
    THEN \* self.cs.try_set_low().map_err(SpiWithCsError::Pin)?
         [events |-> <<PinEvent("try_set_low", lowRes)>>,
          ret |-> SpiWithCsError_Pin(lowRes.e),
          cs |-> lowRes.level]
    ELSE LET spi_result == map_err_Spi(busRes)
             events == <<PinEvent("try_set_low", lowRes),
                         BusEvent("try_transfer", data, busRes),
                         PinEvent("try_set_high", highRes)>>
         IN  IF ~highRes.ok
             THEN \* self.cs.try_set_high().map_err(SpiWithCsError::Pin)?
                  [events |-> events,
                   ret |-> SpiWithCsError_Pin(highRes.e),
                   cs |-> highRes.level]
             ELSE [events |-> events, ret |-> spi_result, cs |-> highRes.level]

\* try_write as it would be with `?` on the bus operation: a bus error
\* returns before the pin is deasserted
try_write_early_return(data, lowRes, busRes, highRes) ==
    IF ~lowRes.ok
    THEN [events |-> <<PinEvent("try_set_low", lowRes)>>,
          ret |-> SpiWithCsError_Pin(lowRes.e),
          cs |-> lowRes.level]
    ELSE IF busRes.tag = "Err"
    THEN [events |-> <<PinEvent("try_set_low", lowRes),
                       BusEvent("try_write", data, busRes)>>,
          ret |-> map_err_Spi(busRes),
          cs |-> lowRes.level]
    ELSE LET events == <<PinEvent("try_set_low", lowRes),
                         BusEvent("try_write", data, busRes),
                         PinEvent("try_set_high", highRes)>>
         IN  IF ~highRes.ok
             THEN [events |-> events,
                   ret |-> SpiWithCsError_Pin(highRes.e),
                   cs |-> highRes.level]
             ELSE [events |-> events, ret |-> busRes, cs |-> highRes.level]

\* try_write as it would be if the captured bus result were dropped once the
\* pin is deasserted
try_write_swallow(data, lowRes, busRes, highRes) ==
    IF ~lowRes.ok
    THEN [events |-> <<PinEvent("try_set_low", lowRes)>>,
          ret |-> SpiWithCsError_Pin(lowRes.e),
          cs |-> lowRes.level]
    ELSE LET events == <<PinEvent("try_set_low", lowRes),
                         BusEvent("try_write", data, busRes),
                         PinEvent("try_set_high", highRes)>>
         IN  IF ~highRes.ok
             THEN [events |-> events,
                   ret |-> SpiWithCsError_Pin(highRes.e),
                   cs |-> highRes.level]
             ELSE [events |-> events, ret |-> Ok(<<>>), cs |-> highRes.level]

\* spi_with_cs: impl Write<u8> for SpiWithCs, try_write
try_write(data, lowRes, busRes, highRes) ==
    IF ~lowRes.ok
    THEN [events |-> <<PinEvent("try_set_low", lowRes)>>,
          ret |-> SpiWithCsError_Pin(lowRes.e),
          cs |-> lowRes.level]
    ELSE LET spi_result == map_err_Spi(busRes)
             events == <<PinEvent("try_set_low", lowRes),
                         BusEvent("try_write", data, busRes),
                         PinEvent("try_set_high", highRes)>>
         IN  IF ~highRes.ok
             THEN [events |-> events,
                   ret |-> SpiWithCsError_Pin(highRes.e),
                   cs |-> highRes.level]
             ELSE [events |-> events, ret |-> spi_result, cs |-> highRes.level]

\* try_write_iter as it would be if the result of the assert were ignored
try_write_iter_ignore_assert(words, lowRes, busRes, highRes) ==
    LET spi_result == map_err_Spi(busRes)
        events == <<PinEvent("try_set_low", lowRes),
                    BusEvent("try_write_iter", words, busRes),
                    PinEvent("try_set_high", highRes)>>
    IN  IF ~highRes.ok
        THEN [events |-> events,
              ret |-> SpiWithCsError_Pin(highRes.e),
              cs |-> highRes.level]
        ELSE [events |-> events, ret |-> spi_result, cs |-> highRes.level]

\* spi_with_cs: impl WriteIter<u8> for SpiWithCs, try_write_iter
try_write_iter(words, lowRes, busRes, highRes) ==
    IF ~lowRes.ok
    THEN [events |-> <<PinEvent("try_set_low", lowRes)>>,
          ret |-> SpiWithCsError_Pin(lowRes.e),
          cs |-> lowRes.level]
    ELSE LET spi_result == map_err_Spi(busRes)
             events == <<PinEvent("try_set_low", lowRes),
                         BusEvent("try_write_iter", words, busRes),
                         PinEvent("try_set_high", highRes)>>
         IN  IF ~highRes.ok
             THEN [events |-> events,
                   ret |-> SpiWithCsError_Pin(highRes.e),
                   cs |-> highRes.level]
             ELSE [events |-> events, ret |-> spi_result, cs |-> highRes.level]

CsReturn(op, data, out) ==
    /\ csOp' = op
    /\ csData' = data
    /\ csEvents' = out.events
    /\ csRet' = out.ret
    /\ cs' = out.cs
    /\ csCalls' = csCalls + 1
    /\ UNCHANGED <<execVars, bridgeVars, timerVars>>

CsTransfer ==
    /\ csCalls < MaxCalls
    /\ \E data \in Bufs, lowRes \in PinOutcomes("low"), highRes \in PinOutcomes("high") :
         \E busRes \in TransferOutcomes(data) :
            CsReturn("try_transfer", data, try_transfer(data, lowRes, busRes, highRes))

CsWrite ==
    /\ csCalls < MaxCalls
    /\ \E data \in Bufs, lowRes \in PinOutcomes("low"), highRes \in PinOutcomes("high") :
         \E busRes \in WriteOutcomes :
            CsReturn("try_write", data, try_write(data, lowRes, busRes, highRes))

CsWriteIter ==
    /\ csCalls < MaxCalls
    /\ \E words \in Bufs, lowRes \in PinOutcomes("low"), highRes \in PinOutcomes("high") :
         \E busRes \in WriteOutcomes :
            CsReturn("try_write_iter", words, try_write_iter(words, lowRes, busRes, highRes))

----------------------------------------------------------------------------
(* transactional::exec *)

\* the buffers of a transaction's operations
OpBufs == {<<0>>, <<1, 0>>}

\* enum Operation: Write(&[W]) or Transfer(&mut [W])
Operation == [kind : {"Write", "Transfer"}, buf : OpBufs]

\* the operations slices a caller passes: every sequence of up to MaxOps operations
OperationLists == UNION {[1..n -> Operation] : n \in 0..MaxOps}

\* what the bus S answers to the call made for `op`: self.write(w) answers
\* unit or an error, self.transfer(t) the received words or an error
AnswersTo(op) ==
    IF op.kind = "Write" THEN WriteOutcomes ELSE TransferOutcomes(op.buf)

\* the answers the bus has ready for a transaction, one per operation
RECURSIVE Answers(_)
Answers(operations) ==
    IF operations = <<>>
    THEN {<<>>}
    ELSE {<<r>> \o rest : r \in AnswersTo(Head(operations)),
                          rest \in Answers(Tail(operations))}

\* the call exec makes for one operation, and how the bus answered it
ExecCall(op, r) ==
    [method |-> IF op.kind = "Write" THEN "write" ELSE "transfer",
     buf |-> op.buf, ok |-> r.tag = "Ok", e |-> r.e]

\* the loop of exec from operation i on, the bus answering the call made for
\* operation k with answers[k]
RECURSIVE exec_from(_, _, _, _)
exec_from(operations, answers, i, calls) ==
    IF i > Len(operations)
    THEN [ret |-> Ok(<<>>), calls |-> calls, operations |-> operations]
    ELSE LET op == operations[i]
             r == answers[i]
             made == Append(calls, ExecCall(op, r))
         IN  IF r.tag = "Err"
             THEN \* `?`: return the error
                  [ret |-> r, calls |-> made, operations |-> operations]
             ELSE IF op.kind = "Transfer"
             THEN exec_from([operations EXCEPT ![i].buf = r.val], answers, i + 1, made)
             ELSE exec_from(operations, answers, i + 1, made)

\* exec as it would be without `?` on the Transfer arm: a failed transfer is
\* dropped and the loop goes on
RECURSIVE exec_from_unchecked_transfer(_, _, _, _)
exec_from_unchecked_transfer(operations, answers, i, calls) ==
    IF i > Len(operations)
    THEN [ret |-> Ok(<<>>), calls |-> calls, operations |-> operations]
    ELSE LET op == operations[i]
             r == answers[i]
             made == Append(calls, ExecCall(op, r))
         IN  IF r.tag = "Err" /\ op.kind = "Write"
             THEN [ret |-> r, calls |-> made, operations |-> operations]
             ELSE IF op.kind = "Transfer" /\ r.tag = "Ok"
             THEN exec_from_unchecked_transfer(
                      [operations EXCEPT ![i].buf = r.val], answers, i + 1, made)
             ELSE exec_from_unchecked_transfer(operations, answers, i + 1, made)

exec_unchecked_transfer(operations, answers) ==
    exec_from_unchecked_transfer(operations, answers, 1, <<>>)

\* transactional: impl Transactional<W> for S, exec
exec(operations, answers) == exec_from(operations, answers, 1, <<>>)

\* One transaction per behaviour: exec keeps nothing from one call to the next.
Exec ==
    /\ exRet = NoRet
    /\ \E operations \in OperationLists :
         \E answers \in Answers(operations) :
            LET out == exec(operations, answers)
            IN  /\ exOps' = operations
                /\ exAfter' = out.operations
                /\ exCalls' = out.calls
                /\ exRet' = out.ret
    /\ UNCHANGED <<csVars, bridgeVars, timerVars>>

----------------------------------------------------------------------------
(* The blocking operations over the non-blocking primitive *)

\* nb::Error::WouldBlock
WouldBlock == [tag |-> "WouldBlock", e |-> "none", val |-> <<>>]

\* the error values of the primitive (S::Error)
BusErrors == {"E1", "E2"}

\* FullDuplex::write(word): would-block, done, or an error
FullDuplexWriteAnswers == {WouldBlock, Ok(<<>>)} \cup {Err(e) : e \in BusErrors}

\* FullDuplex::read(): would-block, a word, or an error
FullDuplexReadAnswers ==
    {WouldBlock} \cup {Ok(<<w>>) : w \in Words} \cup {Err(e) : e \in BusErrors}

\* the words arguments a caller passes
WordSeqs == UNION {[1..n -> Words] : n \in 0..MaxLen}

\* one call on the primitive: which, with which word, and its answer
PrimCall(prim, word, r) == [prim |-> prim, word |-> word, res |-> r]

NumWouldBlock(trace) ==
    Cardinality({k \in 1..Len(trace) : trace[k].res.tag = "WouldBlock"})

\* nb::block! as it would be if every error were polled again, like would-block
block_retry_on_error(r) ==
    IF r.tag = "Ok" THEN "break" ELSE "retry"

\* `?` alone, without nb::block!: would-block reaches the caller as an error
block_no_retry(r) ==
    IF r.tag = "Ok" THEN "break" ELSE "return"

\* nb::block!(e)?: what one answer of the polled primitive leads to: polling
\* again on would-block, returning the error, or going on with the value
block(r) ==
    IF r.tag = "WouldBlock" THEN "retry"
    ELSE IF r.tag = "Err" THEN "return"
    ELSE "break"

\* the index in the slice of the item the iterator yielded last
CurIdx == Len(bOrig) - Len(bRest)

\* word.clone(): transfer reads the slot of the buffer, write the slice,
\* write_iter the item the producer yielded
CurWord == IF bOp = "transfer" THEN bBuf[CurIdx] ELSE bOrig[CurIdx]

\* transfer as it would be if the received word were stored in the first slot
transfer_store_first(buf, i, w) == [buf EXCEPT ![1] = w]

\* transfer as it would be if the received word were dropped, as write does
transfer_store_nothing(buf, i, w) == buf

\* `*word = nb::block!(self.read())?`: the received word replaces slot i
transfer_store(buf, i, w) == [buf EXCEPT ![i] = w]

\* the loop body of write as it would be without the read
write_body_no_read(pc) == "next"

\* the loop body of write and write_iter: the write of the word, then the
\* read, then the next item
write_body(pc) == IF pc = "write" THEN "read" ELSE "next"

\* `for word in ...`: the iterator yields its next item, or the loop ends
\* and the operation returns Ok
LoopHead(rest, buf) ==
    IF rest = <<>>
    THEN /\ bPc' = "done"
         /\ bRet' = Ok(IF bOp = "transfer" THEN buf ELSE <<>>)
         /\ bRest' = rest
    ELSE /\ bPc' = "write"
         /\ bRet' = bRet
         /\ bRest' = Tail(rest)

\* a caller calls one of the blocking operations
Call(op, words) ==
    /\ bPc = "idle"
    /\ bOp' = op
    /\ bOrig' = words
    /\ bBuf' = words
    /\ bTrace' = <<>>
    /\ IF words = <<>>
       THEN /\ bPc' = "done"
            /\ bRet' = Ok(<<>>)
            /\ bRest' = <<>>
       ELSE /\ bPc' = "write"
            /\ bRet' = bRet
            /\ bRest' = Tail(words)
    /\ UNCHANGED <<csVars, execVars, timerVars>>

CallTransfer == \E words \in WordSeqs : Call("transfer", words)

CallWrite == \E words \in WordSeqs : Call("write", words)

CallWriteIter == \E words \in WordSeqs : Call("write_iter", words)

\* `?`: the operation returns the error of the primitive
ReturnErr(r) ==
    /\ bPc' = "done"
    /\ bRet' = Err(r.e)
    /\ UNCHANGED <<bRest, bBuf>>

\* nb::block!(self.write(word.clone()))? of transfer
TransferPollWrite ==
    /\ bOp = "transfer" /\ bPc = "write"
    /\ \E r \in FullDuplexWriteAnswers :
         /\ r.tag = "WouldBlock" => NumWouldBlock(bTrace) < MaxWouldBlock
         /\ bTrace' = Append(bTrace, PrimCall("write", <<CurWord>>, r))
         /\ CASE block(r) = "retry" -> UNCHANGED <<bPc, bRet, bRest, bBuf>>
              [] block(r) = "return" -> ReturnErr(r)
              [] block(r) = "break" ->
                    /\ bPc' = "read"
                    /\ UNCHANGED <<bRet, bRest, bBuf>>
    /\ UNCHANGED <<bOp, bOrig, csVars, execVars, timerVars>>

\* *word = nb::block!(self.read())? of transfer, then the next word
TransferPollRead ==
    /\ bOp = "transfer" /\ bPc = "read"
    /\ \E r \in FullDuplexReadAnswers :
         /\ r.tag = "WouldBlock" => NumWouldBlock(bTrace) < MaxWouldBlock
         /\ bTrace' = Append(bTrace, PrimCall("read", <<>>, r))
         /\ CASE block(r) = "retry" -> UNCHANGED <<bPc, bRet, bRest, bBuf>>
              [] block(r) = "return" -> ReturnErr(r)
              [] block(r) = "break" ->
                    LET buf == transfer_store(bBuf, CurIdx, r.val[1])
                    IN  /\ bBuf' = buf
                        /\ LoopHead(bRest, buf)
    /\ UNCHANGED <<bOp, bOrig, csVars, execVars, timerVars>>

\* nb::block!(self.write(word.clone()))? of write and of write_iter
WritePollWrite(op) ==
    /\ bOp = op /\ bPc = "write"
    /\ \E r \in FullDuplexWriteAnswers :
         /\ r.tag = "WouldBlock" => NumWouldBlock(bTrace) < MaxWouldBlock
         /\ bTrace' = Append(bTrace, PrimCall("write", <<CurWord>>, r))
         /\ CASE block(r) = "retry" -> UNCHANGED <<bPc, bRet, bRest, bBuf>>
              [] block(r) = "return" -> ReturnErr(r)
              [] block(r) = "break" ->
                    IF write_body("write") = "read"
                    THEN /\ bPc' = "read"
                         /\ UNCHANGED <<bRet, bRest, bBuf>>
                    ELSE /\ LoopHead(bRest, bBuf)
                         /\ UNCHANGED bBuf
    /\ UNCHANGED <<bOp, bOrig, csVars, execVars, timerVars>>

\* nb::block!(self.read())? of write and of write_iter: the word is dropped
WritePollRead(op) ==
    /\ bOp = op /\ bPc = "read"
    /\ \E r \in FullDuplexReadAnswers :
         /\ r.tag = "WouldBlock" => NumWouldBlock(bTrace) < MaxWouldBlock
         /\ bTrace' = Append(bTrace, PrimCall("read", <<>>, r))
         /\ CASE block(r) = "retry" -> UNCHANGED <<bPc, bRet, bRest, bBuf>>
              [] block(r) = "return" -> ReturnErr(r)
              [] block(r) = "break" ->
                    /\ LoopHead(bRest, bBuf)
                    /\ UNCHANGED bBuf
    /\ UNCHANGED <<bOp, bOrig, csVars, execVars, timerVars>>

WriteWritePoll == WritePollWrite("write")

WriteReadPoll == WritePollRead("write")

WriteIterWritePoll == WritePollWrite("write_iter")

WriteIterReadPoll == WritePollRead("write_iter")

\* transfer, write and write_iter run to their end from item i on over a
\* primitive that never answers would-block and gives `answers` in order:
\* per item the write of the word, then the read, the first error returned.
\* ret is NoRet when the answers run out before the operation returns.
RECURSIVE Unblocked(_, _, _, _, _)
Unblocked(op, buf, i, answers, trace) ==
    IF i > Len(buf)
    THEN [ret |-> Ok(IF op = "transfer" THEN buf ELSE <<>>),
          buf |-> buf, trace |-> trace, unused |-> answers]
    ELSE IF answers = <<>>
    THEN [ret |-> NoRet, buf |-> buf, trace |-> trace, unused |-> answers]
    ELSE LET w == answers[1]
             sent == Append(trace, PrimCall("write", <<buf[i]>>, w))
         IN  IF w.tag = "Err"
             THEN [ret |-> Err(w.e), buf |-> buf, trace |-> sent,
                   unused |-> Tail(answers)]
             ELSE IF Len(answers) < 2
             THEN [ret |-> NoRet, buf |-> buf, trace |-> sent, unused |-> <<>>]
             ELSE LET r == answers[2]
                      read == Append(sent, PrimCall("read", <<>>, r))
                  IN  IF r.tag = "Err"
                      THEN [ret |-> Err(r.e), buf |-> buf, trace |-> read,
                            unused |-> Tail(Tail(answers))]
                      ELSE Unblocked(op,
                                     IF op = "transfer"
                                     THEN [buf EXCEPT ![i] = r.val[1]]
                                     ELSE buf,
                                     i + 1, Tail(Tail(answers)), read)

----------------------------------------------------------------------------
(* The count down timer: CountDown, Periodic and Cancel, as their contracts  *)
(* state them                                                               *)

\* Cancel::Error, the error of a count down that cannot be canceled
CancelError == Err("CancelError")

\* one call on the timer; left is the time the count down had left
TimerCall(op, res, left) == [op |-> op, res |-> res, left |-> left]

\* cancel as it would be if an expired count down could still be canceled
cancel_ignores_expiry(state, periodic) ==
    IF state \in {"idle", "canceled"} THEN CancelError ELSE Ok(<<>>)

\* Cancel::cancel: an error if the count down was never started or has been
\* canceled, and if the timer is not Periodic and the count down has expired
cancel(state, periodic) ==
    IF state \in {"idle", "canceled"} THEN CancelError
    ELSE IF ~periodic /\ state = "expired" THEN CancelError
    ELSE Ok(<<>>)

\* CountDown::start(count): a new count down
Start ==
    /\ Len(tLog) < MaxTimerCalls
    /\ \E count \in 1..MaxCount :
         /\ tCount' = count
         /\ tLeft' = count
    /\ tState' = "running"
    /\ tFired' = FALSE
    /\ tLog' = Append(tLog, TimerCall("start", Ok(<<>>), tLeft))
    /\ UNCHANGED <<tPeriodic, csVars, execVars, bridgeVars>>

\* time passes; a Periodic timer starts a new count down right after the last
\* one finishes, any other timer stays expired
Tick ==
    /\ tState = "running"
    /\ tLeft > 0
    /\ IF tLeft > 1
       THEN /\ tLeft' = tLeft - 1
            /\ UNCHANGED <<tState, tFired>>
       ELSE /\ tFired' = TRUE
            /\ IF tPeriodic
               THEN /\ tLeft' = tCount
                    /\ tState' = "running"
               ELSE /\ tLeft' = 0
                    /\ tState' = "expired"
    /\ UNCHANGED <<tPeriodic, tCount, tLog, csVars, execVars, bridgeVars>>

\* CountDown::wait: would-block until the count down has finished, then Ok
\* once; what it answers after that on a timer that is not Periodic is
\* unspecified
Wait ==
    /\ Len(tLog) < MaxTimerCalls
    /\ \E res \in {WouldBlock, Ok(<<>>)} :
         /\ tFired => res = Ok(<<>>)
         /\ (~tFired /\ tState # "expired") => res = WouldBlock
         /\ tLog' = Append(tLog, TimerCall("wait", res, tLeft))
    /\ tFired' = FALSE
    /\ UNCHANGED <<tPeriodic, tState, tCount, tLeft, csVars, execVars, bridgeVars>>

\* Cancel::cancel
Cancel ==
    /\ Len(tLog) < MaxTimerCalls
    /\ LET res == cancel(tState, tPeriodic)
       IN  /\ tLog' = Append(tLog, TimerCall("cancel", res, tLeft))
           /\ IF res.tag = "Ok"
              THEN /\ tState' = "canceled"
                   /\ tLeft' = 0
                   /\ tFired' = FALSE
              ELSE UNCHANGED <<tState, tLeft, tFired>>
    /\ UNCHANGED <<tPeriodic, tCount, csVars, execVars, bridgeVars>>

----------------------------------------------------------------------------
(* Specifications *)

\* SpiWithCs::new stores the pin as given: its level is whatever it was
Init ==
    /\ cs \in Levels
    /\ csOp = "none"
    /\ csData = <<>>
    /\ csEvents = <<>>
    /\ csRet = NoRet
    /\ csCalls = 0
    /\ exOps = <<>>
    /\ exAfter = <<>>
    /\ exCalls = <<>>
    /\ exRet = NoRet
    /\ bOp = "none"
    /\ bOrig = <<>>
    /\ bBuf = <<>>
    /\ bRest = <<>>
    /\ bPc = "idle"
    /\ bTrace = <<>>
    /\ bRet = NoRet
    /\ tPeriodic \in BOOLEAN
    /\ tState = "idle"
    /\ tCount = 0
    /\ tLeft = 0
    /\ tFired = FALSE
    /\ tLog = <<>>

NextCs == CsTransfer \/ CsWrite \/ CsWriteIter

SpecCs == Init /\ [][NextCs]_vars

NextExec == Exec

SpecExec == Init /\ [][NextExec]_vars

NextBridge ==
    \/ CallTransfer
    \/ CallWrite
    \/ CallWriteIter
    \/ TransferPollWrite
    \/ TransferPollRead
    \/ WriteWritePoll
    \/ WriteReadPoll
    \/ WriteIterWritePoll
    \/ WriteIterReadPoll

SpecBridge == Init /\ [][NextBridge]_vars

NextTimer == Start \/ Tick \/ Wait \/ Cancel

SpecTimer == Init /\ [][NextTimer]_vars

----------------------------------------------------------------------------
(* Properties of SpiWithCs (under SpecCs) *)

BusCalls == {"try_transfer", "try_write", "try_write_iter"}

CsReturned == csOp # "none"

PinEventsOk == \A k \in 1..Len(csEvents) : csEvents[k].call \in BusCalls \/ csEvents[k].ok

CsCallNames == [k \in 1..Len(csEvents) |-> csEvents[k].call]

\* C1: in every call the bus operation is invoked only right after the same
\* call asserted the pin with success, and it is always followed, in the same
\* call, by an attempt to deassert the pin, whether the bus operation
\* succeeded or failed; when the pin operations of a call succeed its events
\* are exactly assert, the bus operation called, deassert, and the pin is
\* high once the call has returned.
C1_Bracketed ==
    /\ \A k \in 1..Len(csEvents) :
          csEvents[k].call \in BusCalls =>
            /\ k > 1
            /\ csEvents[k - 1].call = "try_set_low"
            /\ csEvents[k - 1].ok
            /\ k < Len(csEvents)
            /\ csEvents[k + 1].call = "try_set_high"
            /\ csEvents[k].call = csOp
            /\ csEvents[k].data = csData
    /\ (CsReturned /\ PinEventsOk) =>
          /\ CsCallNames = <<"try_set_low", csOp, "try_set_high">>
          /\ cs = "high"

\* C1 witness: a second call whose bus operation failed between a successful
\* assert and a successful deassert has returned, and the pin is high
C1_Witness ==
    /\ csCalls >= 2
    /\ Len(csEvents) = 3
    /\ PinEventsOk
    /\ ~csEvents[2].ok
    /\ cs = "high"

\* C2: when the assert fails with pin error e the call returns Pin(e) and
\* makes no other call: neither the bus operation nor the deassert.
C2_AssertFailureAborts ==
    CsReturned =>
      /\ Len(csEvents) >= 1
      /\ csEvents[1].call = "try_set_low"
      /\ ~csEvents[1].ok =>
            /\ csRet = SpiWithCsError_Pin(csEvents[1].e)
            /\ Len(csEvents) = 1

\* C2 witness: a write_iter call whose assert failed has returned
C2_Witness ==
    /\ csOp = "try_write_iter"
    /\ ~csEvents[1].ok
    /\ csRet.tag = "Pin"

\* C3: when the assert succeeded and the deassert fails with pin error e the
\* call returns Pin(e), whether the bus operation succeeded or failed; a bus
\* error is never returned then.
C3_DeassertFailureWins ==
    (CsReturned /\ Len(csEvents) = 3 /\ ~csEvents[3].ok) =>
      /\ csEvents[1].ok
      /\ csEvents[3].call = "try_set_high"
      /\ csRet = SpiWithCsError_Pin(csEvents[3].e)

\* C3 witness: a transfer whose bus operation failed and whose deassert failed
C3_Witness ==
    /\ csOp = "try_transfer"
    /\ Len(csEvents) = 3
    /\ ~csEvents[2].ok
    /\ ~csEvents[3].ok
    /\ csRet.tag = "Pin"

\* C4: when the assert and the deassert both succeed the call returns the
\* captured result of the bus operation: its value when it succeeded, Spi(e)
\* when it failed with e; the deassert has been called by then.
C4_BusResultReturned ==
    (CsReturned /\ PinEventsOk) =>
      /\ Len(csEvents) = 3
      /\ csEvents[3].call = "try_set_high"
      /\ csEvents[2].ok => csRet = Ok(csEvents[2].val)
      /\ ~csEvents[2].ok => csRet = SpiWithCsError_Spi(csEvents[2].e)

\* C4 witness: a write whose bus operation failed, bracketed by successful pin
\* operations, returned the bus error
C4_Witness ==
    /\ csOp = "try_write"
    /\ PinEventsOk
    /\ Len(csEvents) = 3
    /\ ~csEvents[2].ok
    /\ csRet.tag = "Spi"

----------------------------------------------------------------------------
(* Properties of exec (under SpecExec) *)

ExecReturned == exRet # NoRet

\* the calls that failed, by position in exCalls
FailedCalls == {k \in 1..Len(exCalls) : ~exCalls[k].ok}

\* C5: exec calls write for a Write and transfer for a Transfer, once per
\* operation and in the order given, each with the operation's buffer; the
\* first call that fails is the last call made and its error is returned, so
\* the calls made are the operations up to and including the failing one and
\* the operations after it are untouched; when no call fails every operation
\* is called and the result is Ok.
C5_ExecInOrderStopsAtFirstError ==
    ExecReturned =>
      /\ Len(exCalls) <= Len(exOps)
      /\ \A k \in 1..Len(exCalls) :
            /\ exCalls[k].method = (IF exOps[k].kind = "Write" THEN "write" ELSE "transfer")
            /\ exCalls[k].buf = exOps[k].buf
      /\ FailedCalls \subseteq {Len(exCalls)}
      /\ FailedCalls = {} =>
            /\ Len(exCalls) = Len(exOps)
            /\ exRet = Ok(<<>>)
      /\ FailedCalls # {} =>
            /\ exRet = Err(exCalls[Len(exCalls)].e)
            /\ \A k \in (Len(exCalls) + 1)..Len(exOps) : exAfter[k] = exOps[k]
      /\ Len(exAfter) = Len(exOps)

\* C5 witness: of three operations mixing Write and Transfer the second, a
\* Transfer, failed: two calls were made and the error returned
C5_Witness ==
    /\ Len(exOps) = 3
    /\ exOps[1].kind = "Write"
    /\ exOps[2].kind = "Transfer"
    /\ Len(exCalls) = 2
    /\ exRet.tag = "Err"

----------------------------------------------------------------------------
(* Properties of the blocking operations (under SpecBridge) *)

IsWouldBlock(c) == c.res.tag = "WouldBlock"

IsAnswered(c) == c.res.tag # "WouldBlock"

\* the calls the primitive did not answer with would-block
Answered == SelectSeq(bTrace, IsAnswered)

IsOkWrite(c) == c.prim = "write" /\ c.res.tag = "Ok"

IsOkRead(c) == c.prim = "read" /\ c.res.tag = "Ok"

\* the words the primitive accepted, and the words it handed back, in order
Accepted == [k \in 1..Len(SelectSeq(bTrace, IsOkWrite)) |->
                SelectSeq(bTrace, IsOkWrite)[k].word[1]]

Received == [k \in 1..Len(SelectSeq(bTrace, IsOkRead)) |->
                SelectSeq(bTrace, IsOkRead)[k].res.val[1]]

\* the primitive answered every call with success at once
AlwaysSucceeded == \A k \in 1..Len(bTrace) : bTrace[k].res.tag = "Ok"

\* C6: over a primitive that always succeeds, write(W) and write_iter(W)
\* return Ok after exactly 2 * len(W) calls: for each i in order the write of
\* W[i] and then one read, whose word is dropped; the source is drained.
C6_WritePairsEachWordWithRead ==
    (bPc = "done" /\ bOp \in {"write", "write_iter"} /\ AlwaysSucceeded) =>
      /\ bRet = Ok(<<>>)
      /\ Len(bTrace) = 2 * Len(bOrig)
      /\ \A i \in 1..Len(bOrig) :
            /\ bTrace[2 * i - 1].prim = "write"
            /\ bTrace[2 * i - 1].word = <<bOrig[i]>>
            /\ bTrace[2 * i].prim = "read"
      /\ Accepted = bOrig
      /\ bRest = <<>>
      /\ bBuf = bOrig

\* C6 witness: write_iter of two words over a primitive that always succeeded
\* has returned
C6_Witness ==
    /\ bPc = "done"
    /\ bOp = "write_iter"
    /\ AlwaysSucceeded
    /\ Len(bOrig) = 2
    /\ Len(bTrace) = 4

\* C7: a call of the primitive answered with an error is the last call the
\* operation makes: the operation has returned that error, with the item i it
\* was at still the current one; the items before i were written and read
\* with success, and for transfer their slots hold the words received while
\* the slots from i on hold their original words.
C7_ErrorAbortsAtOnce ==
    \A k \in 1..Len(bTrace) :
      bTrace[k].res.tag = "Err" =>
        /\ k = Len(bTrace)
        /\ bPc = "done"
        /\ bRet = Err(bTrace[k].res.e)
        /\ Len(Received) = CurIdx - 1
        /\ Accepted = SubSeq(bOrig, 1, Len(Accepted))
        /\ Len(Accepted) = (IF bTrace[k].prim = "write" THEN CurIdx - 1 ELSE CurIdx)
        /\ bOp = "transfer" =>
              \A j \in 1..Len(bOrig) :
                 bBuf[j] = (IF j < CurIdx THEN Received[j] ELSE bOrig[j])
        /\ bOp # "transfer" => bBuf = bOrig

\* C7 witness: a transfer of two words failed at the read of the second word,
\* after the first slot had been overwritten with a different word
C7_Witness ==
    /\ bOp = "transfer"
    /\ bPc = "done"
    /\ bRet.tag = "Err"
    /\ Len(bOrig) = 2
    /\ CurIdx = 2
    /\ bTrace[Len(bTrace)].prim = "read"
    /\ bBuf[1] # bOrig[1]

\* C8: a would-block answer is followed by a call of the same primitive with
\* the same word; the operation never returns on a would-block answer nor
\* returns would-block; and once it has returned, its calls without the
\* would-block answers, its result and its buffer are those of the operation
\* over a primitive that gives the same answers and never would-block.
C8_WouldBlockIsRetried ==
    /\ \A k \in 1..Len(bTrace) :
          IsWouldBlock(bTrace[k]) =>
            IF k < Len(bTrace)
            THEN /\ bTrace[k + 1].prim = bTrace[k].prim
                 /\ bTrace[k + 1].word = bTrace[k].word
            ELSE /\ bPc = bTrace[k].prim
                 /\ bTrace[k].prim = "write" => bTrace[k].word = <<CurWord>>
    /\ bPc = "done" =>
          /\ bRet.tag \in {"Ok", "Err"}
          /\ bRet.tag = "Err" => bRet.e \in BusErrors
          /\ LET answers == [k \in 1..Len(Answered) |-> Answered[k].res]
                 ref == Unblocked(bOp, bOrig, 1, answers, <<>>)
             IN  /\ ref.ret = bRet
                 /\ ref.trace = Answered
                 /\ ref.buf = bBuf
                 /\ ref.unused = <<>>

\* C8 witness: a transfer of two words returned Ok after the primitive
\* answered would-block to a write and to a read
C8_Witness ==
    /\ bPc = "done"
    /\ bOp = "transfer"
    /\ bRet.tag = "Ok"
    /\ Len(bOrig) = 2
    /\ \E j, k \in 1..Len(bTrace) :
          /\ IsWouldBlock(bTrace[j]) /\ bTrace[j].prim = "write"
          /\ IsWouldBlock(bTrace[k]) /\ bTrace[k].prim = "read"

\* the primitive echoed: every word it handed back is the word it accepted last
Echoed ==
    \A k \in 1..Len(Answered) :
       IsOkRead(Answered[k]) =>
         /\ k > 1
         /\ IsOkWrite(Answered[k - 1])
         /\ Answered[k].res.val = Answered[k - 1].word

\* C9: a transfer that returned Ok wrote the original buf[i] and then read
\* one word for it, for each i in order, and left that word in buf[i]; it
\* returned the buffer; and when the primitive echoed, the buffer equals the
\* original buffer.
C9_TransferInPlace ==
    (bOp = "transfer" /\ bPc = "done" /\ bRet.tag = "Ok") =>
      /\ Len(Answered) = 2 * Len(bOrig)
      /\ \A i \in 1..Len(bOrig) :
            /\ IsOkWrite(Answered[2 * i - 1])
            /\ Answered[2 * i - 1].word = <<bOrig[i]>>
            /\ IsOkRead(Answered[2 * i])
            /\ bBuf[i] = Answered[2 * i].res.val[1]
      /\ Len(bBuf) = Len(bOrig)
      /\ bRet = Ok(bBuf)
      /\ Echoed => bBuf = bOrig

\* C9 witness: a transfer of <<1, 0>> over an echoing primitive returned Ok
C9_Witness ==
    /\ bOp = "transfer"
    /\ bPc = "done"
    /\ bRet.tag = "Ok"
    /\ bOrig = <<1, 0>>
    /\ Echoed

----------------------------------------------------------------------------
(* Properties of the cancelable count down (under SpecTimer) *)

\* the positions of the calls before call k that come after the last start
\* before k (all the calls before k when there is none)
SinceStart(k) ==
    {j \in 1..(k - 1) : \A i \in j..(k - 1) : tLog[i].op # "start"}

StartedBefore(k) == \E j \in 1..(k - 1) : tLog[j].op = "start"

CanceledBefore(k) ==
    \E j \in SinceStart(k) : tLog[j].op = "cancel" /\ tLog[j].res.tag = "Ok"

CompletedBefore(k) ==
    \E j \in SinceStart(k) : tLog[j].op = "wait" /\ tLog[j].res.tag = "Ok"

\* C11: after any calls of start, wait and cancel, a cancel fails with the
\* cancellation error when no count down was started before it or the count
\* down has been canceled since its start; it fails when the timer is not
\* periodic and wait has returned Ok since the start; it succeeds when the
\* count down was started, has not been canceled and still has time left,
\* and when the timer is periodic, was started and has not been canceled.
C11_Cancel ==
    \A k \in 1..Len(tLog) :
      tLog[k].op = "cancel" =>
        /\ (~StartedBefore(k) \/ CanceledBefore(k)) => tLog[k].res = CancelError
        /\ (~tPeriodic /\ StartedBefore(k) /\ CompletedBefore(k)) =>
              tLog[k].res = CancelError
        /\ (StartedBefore(k) /\ ~CanceledBefore(k) /\ tLog[k].left > 0) =>
              tLog[k].res = Ok(<<>>)
        /\ (tPeriodic /\ StartedBefore(k) /\ ~CanceledBefore(k)) =>
              tLog[k].res = Ok(<<>>)

\* C11 witness: on a timer that is not periodic, start, a wait that returned
\* Ok, then a cancel that failed
C11_Witness ==
    /\ ~tPeriodic
    /\ Len(tLog) = 3
    /\ tLog[1].op = "start"
    /\ tLog[2].op = "wait" /\ tLog[2].res.tag = "Ok"
    /\ tLog[3].op = "cancel" /\ tLog[3].res = CancelError

====
